---------------------------- MODULE Spec2Model ----------------------------
(***************************************************************************)
(* Verification model of VeriSim's visualise.py:                           *)
(*   - inject_vcd_commands: the testbench instrumentation pass;            *)
(*   - visualize_vcd: the shaping of a value-change dump into step series. *)
(*                                                                         *)
(* Source text is modelled as a sequence of lexical tokens.  Every token   *)
(* is of one of three kinds: all of its characters are word characters     *)
(* (\w), all of them are whitespace (\s), or it starts with a character    *)
(* that is neither.  The keywords the regular expressions of the source    *)
(* look for are tokens of their own, so a regular expression over the      *)
(* characters of the text is decided by the token sequence.                *)
(***************************************************************************)
EXTENDS Integers, Sequences, FiniteSets, TLC

VARIABLES test_code, modified_test_code, rerun_code, typed, calls,
          signals, tv, result, fig

inject_vars == <<test_code, modified_test_code, rerun_code, typed, calls>>

vcd_vars == <<signals, tv, result, fig>>

vars == <<test_code, modified_test_code, rerun_code, typed, calls,
          signals, tv, result, fig>>

(***************************************************************************)
(* Bounds of the model.                                                    *)
(***************************************************************************)
MaxPieces == 3

MaxEvents == 4

(***************************************************************************)
(* Lexical classes of the tokens.                                          *)
(***************************************************************************)
NL == "\n"

Indent4 == "    "

Indent8 == "        "

AutoComment == "// Auto-inserted VCD dump commands"

WaveformName == "\"waveform.vcd\""

WordTokens == {"module", "initial", "begin", "end", "foo", "bar", "test", "0"}

SpaceTokens == {" ", NL, Indent4, Indent8}

IsWord(t) == t \in WordTokens

IsSpace(t) == t \in SpaceTokens

\* The last character of the token is a word character (decides \b).
EndsWithWord(t) == t \in WordTokens \cup {"$dumpfile", "$dumpvars", AutoComment}

\* The pieces of text the editor can receive in one step.
Pieces ==
    { <<"module", " ", "foo", ";">>,
      <<"module", " ", "bar", "(">>,
      <<"initial", " ", "begin", NL>>,
      <<"module">>, <<"initial">>, <<"begin">>, <<"foo">>,
      <<" ">>, <<NL>>, <<";">>, <<")">>,
      <<"$dumpfile">>, <<"$dumpvars">> }

(***************************************************************************)
(* Regular-expression helpers.                                             *)
(***************************************************************************)
RECURSIVE SkipSpace(_, _)
\* \s* from position i, greedy: the first position that is no whitespace.
SkipSpace(text, i) ==
    IF i <= Len(text) /\ IsSpace(text[i]) THEN SkipSpace(text, i + 1) ELSE i

RECURSIVE SkipWord(_, _)
\* \w* from position i, greedy: the first position that is no word token.
SkipWord(text, i) ==
    IF i <= Len(text) /\ IsWord(text[i]) THEN SkipWord(text, i + 1) ELSE i

Min(S) == CHOOSE x \in S : \A y \in S : x <= y

Max(S) == CHOOSE x \in S : \A y \in S : x >= y

\* "needle in text" for a needle that is one token.
Contains(text, tok) == \E i \in 1..Len(text) : text[i] = tok

\* text[:pos] + inserted + text[pos:]  (pos counts the tokens before the cut)
Splice(text, pos, inserted) ==
    SubSeq(text, 1, pos) \o inserted \o SubSeq(text, pos + 1, Len(text))

(***************************************************************************)
(* module_pattern = r'\bmodule\s+(\w+)\s*[;(]'                             *)
(***************************************************************************)
ModuleNameStart(text, i) == SkipSpace(text, i + 1)

ModuleNameEnd(text, i) == SkipWord(text, ModuleNameStart(text, i))

\* module_pattern matches with its first character at token i.
module_pattern(text, i) ==
    /\ text[i] = "module"
    /\ (i = 1 \/ ~EndsWithWord(text[i - 1]))
    /\ ModuleNameStart(text, i) > i + 1
    /\ ModuleNameEnd(text, i) > ModuleNameStart(text, i)
    /\ LET d == SkipSpace(text, ModuleNameEnd(text, i))
       IN  d <= Len(text) /\ text[d] \in {";", "("}

ModuleMatches(text) == {i \in 1..Len(text) : module_pattern(text, i)}

\* Faulty variant of module_name: the last match instead of the first.
module_name_last(text) ==
    IF ModuleMatches(text) = {}
    THEN <<"test">>
    ELSE LET i == Max(ModuleMatches(text))
         IN  SubSeq(text, ModuleNameStart(text, i), ModuleNameEnd(text, i) - 1)

\* match.group(1) if match else "test", for match = re.search(module_pattern, ..)
module_name(text) ==
    IF ModuleMatches(text) = {}
    THEN <<"test">>
    ELSE LET i == Min(ModuleMatches(text))
         IN  SubSeq(text, ModuleNameStart(text, i), ModuleNameEnd(text, i) - 1)

(***************************************************************************)
(* initial_pattern = r'(\s*initial\s*begin\s*\n)'                          *)
(***************************************************************************)
\* The newlines of the whitespace run that follows the "begin" of the
\* "initial" at token i ({} when the pattern does not match there).
OpenerNewlines(text, i) ==
    IF text[i] # "initial" THEN {}
    ELSE LET b == SkipSpace(text, i + 1)
         IN  IF b > Len(text) \/ text[b] # "begin" THEN {}
             ELSE {k \in (b + 1)..(SkipSpace(text, b + 1) - 1) : text[k] = NL}

\* The "initial" tokens at which initial_pattern matches.
initial_pattern(text) == {i \in 1..Len(text) : OpenerNewlines(text, i) # {}}

\* End of the match at the "initial" of token i: \s*\n is greedy, so the
\* match ends with the last newline of the run.
OpenerEnd(text, i) == Max(OpenerNewlines(text, i))

DumpStatements(name) ==
    <<Indent8, "$dumpfile", "(", WaveformName, ")", ";", NL,
      Indent8, "$dumpvars", "(", "0", ",", " ">> \o name \o <<")", ";", NL>>

NewInitialBlock(name) ==
    <<NL, NL, Indent4, AutoComment, NL, Indent4, "initial", " ", "begin", NL>>
    \o DumpStatements(name) \o <<Indent4, "end", NL>>

\* Faulty variant of re_sub: count=1 dropped, so the first and the last
\* opener both receive the statements.
re_sub_all(text, name) ==
    LET first == OpenerEnd(text, Min(initial_pattern(text)))
        last  == OpenerEnd(text, Max(initial_pattern(text)))
    IN  IF last = first
        THEN Splice(text, first, DumpStatements(name))
        ELSE Splice(Splice(text, last, DumpStatements(name)), first,
                    DumpStatements(name))

\* re.sub(initial_pattern, r'\1' + statements, test_code, count=1)
re_sub(text, name) ==
    Splice(text, OpenerEnd(text, Min(initial_pattern(text))), DumpStatements(name))

(***************************************************************************)
(* module_start = re.search(r'module.*?[;)]', test_code)                   *)
(***************************************************************************)
\* The first ';', ')' or newline after token i (0 when there is none).
HeaderStop(text, i) ==
    LET S == {j \in (i + 1)..Len(text) : text[j] \in {";", ")", NL}}
    IN  IF S = {} THEN 0 ELSE Min(S)

\* The "module" tokens followed anywhere later, also on a later line, by ';'
\* or ')'.
ModuleFollowedByCloser(text) ==
    {i \in 1..Len(text) :
        /\ text[i] = "module"
        /\ \E j \in (i + 1)..Len(text) : text[j] \in {";", ")"}}

\* The "module" tokens at which the header pattern matches: '.' matches no
\* newline, so the ';' or ')' has to come before the end of the line.
module_start(text) ==
    {i \in 1..Len(text) :
        /\ text[i] = "module"
        /\ HeaderStop(text, i) # 0
        /\ text[HeaderStop(text, i)] # NL}

\* module_start.end()
insert_pos(text) == HeaderStop(text, Min(module_start(text)))

(***************************************************************************)
(* inject_vcd_commands(test_code)                                          *)
(***************************************************************************)
\* Faulty variant of AlreadyInstrumented: the early return never taken.
NeverInstrumented(text) == FALSE

\* "$dumpfile" in test_code and "$dumpvars" in test_code
AlreadyInstrumented(text) ==
    Contains(text, "$dumpfile") /\ Contains(text, "$dumpvars")

inject_vcd_commands(text) ==
    IF AlreadyInstrumented(text) THEN text
    ELSE IF initial_pattern(text) # {}
         THEN re_sub(text, module_name(text))
         ELSE IF module_start(text) # {}
              THEN Splice(text, insert_pos(text),
                          NewInitialBlock(module_name(text)))
              ELSE text

(***************************************************************************)
(* visualize_vcd: the value-change dump.                                   *)
(*                                                                         *)
(* A value literal is a sequence of characters.  Numeric values are kept   *)
(* as integers in hundredths (1 is 100, 0.5 is 50), which is exact for the *)
(* literals of the model.                                                  *)
(***************************************************************************)
AllSignals == {"clk", "data"}

TimeStamps == {0, 10, 20, 25, 30}

\* The value literals of a signal: clk is a scalar (one bit, or unknown), data
\* carries a vector, a real number, an unknown or an empty literal.
Literals(s) ==
    IF s = "clk"
    THEN { <<"0">>, <<"1">>, <<"x">> }
    ELSE { <<"1", "0", "1">>, <<"x">>, <<"2", ".", "5">>, <<>> }

Digits == {"0", "1", "2", "5"}

DigitValue(c) == CASE c = "0" -> 0 [] c = "1" -> 1 [] c = "2" -> 2 [] c = "5" -> 5

RECURSIVE LStrip01(_)
LStrip01(v) == IF v # <<>> /\ Head(v) \in {"0", "1"} THEN LStrip01(Tail(v)) ELSE v

RECURSIVE RStrip01(_)
RStrip01(v) ==
    IF v # <<>> /\ v[Len(v)] \in {"0", "1"}
    THEN RStrip01(SubSeq(v, 1, Len(v) - 1))
    ELSE v

\* v.strip('01')
Strip01(v) == RStrip01(LStrip01(v))

RECURSIVE IntBase(_, _)
\* The digits of v read in the given base.
IntBase(v, base) ==
    IF v = <<>> THEN 0
    ELSE base * IntBase(SubSeq(v, 1, Len(v) - 1), base) + DigitValue(v[Len(v)])

\* float(v) parses: digits with at most one '.', and at least one digit.
FloatParses(v) ==
    /\ \A i \in 1..Len(v) : v[i] \in Digits \cup {"."}
    /\ Cardinality({i \in 1..Len(v) : v[i] = "."}) <= 1
    /\ \E i \in 1..Len(v) : v[i] \in Digits

\* float(v) in hundredths (two decimals are kept).
FloatValue(v) ==
    LET dots  == {i \in 1..Len(v) : v[i] = "."}
        dot   == IF dots = {} THEN Len(v) + 1 ELSE Min(dots)
        whole == SubSeq(v, 1, dot - 1)
        frac  == SubSeq(v, dot + 1, Len(v))
        d1    == IF Len(frac) >= 1 THEN DigitValue(frac[1]) ELSE 0
        d2    == IF Len(frac) >= 2 THEN DigitValue(frac[2]) ELSE 0
    IN  100 * IntBase(whole, 10) + 10 * d1 + d2

\* int(v, 2) if v.strip('01') == '' else float(v) raises ValueError.
Raises(v) ==
    IF Strip01(v) = <<>> THEN v = <<>> ELSE ~FloatParses(v)

\* int(v, 2) if v.strip('01') == '' else float(v), in hundredths.
Interpret(v) ==
    IF Strip01(v) = <<>> THEN 100 * IntBase(v, 2) ELSE FloatValue(v)

\* 0 if v == '0' else 1 if v == '1' else 0.5
Sentinel(v) == IF v = <<"0">> THEN 0 ELSE IF v = <<"1">> THEN 100 ELSE 50

\* Faulty variant of numeric_values: the fallback applied per sample.
numeric_values_per_sample(values) ==
    [i \in 1..Len(values) |->
        IF Raises(values[i]) THEN Sentinel(values[i]) ELSE Interpret(values[i])]

\* The try/except of the numeric interpretation: one ValueError makes the
\* whole list the sentinel mapping.
numeric_values(values) ==
    IF \E i \in 1..Len(values) : Raises(values[i])
    THEN [i \in 1..Len(values) |-> Sentinel(values[i])]
    ELSE [i \in 1..Len(values) |-> Interpret(values[i])]

\* max_time: the largest last timestamp over the signals, at least 0.
max_time(sigs, trace) ==
    Max({0} \cup {trace[s][Len(trace[s])][1] : s \in {x \in sigs : trace[x] # <<>>}})

\* Faulty variant of times: neither the leading 0 nor the trailing max_time.
times_no_padding(events, mt) == [i \in 1..Len(events) |-> events[i][1]]

\* times: a leading 0 when the first event is later, the event times, and a
\* trailing max_time when the last event is earlier.
times(events, mt) ==
    LET lead == IF events[1][1] > 0 THEN <<0>> ELSE <<>>
        body == lead \o [i \in 1..Len(events) |-> events[i][1]]
    IN  IF body[Len(body)] < mt THEN Append(body, mt) ELSE body

\* values: a leading '0', the event values, and a trailing last_value.
values(events, mt) ==
    LET lead == IF events[1][1] > 0 THEN << <<"0">> >> ELSE <<>>
        body == lead \o [i \in 1..Len(events) |-> events[i][2]]
    IN  IF events[Len(events)][1] < mt
        THEN Append(body, events[Len(events)][2])
        ELSE body

\* Faulty variant of t_steps: one point per sample.
t_steps_no_hold(ts, i) == ts

RECURSIVE t_steps(_, _)
\* t_steps after the first i rounds of the step loop.
t_steps(ts, i) ==
    IF i = 0 THEN <<>>
    ELSE t_steps(ts, i - 1)
         \o (IF i > 1 THEN <<ts[i]>> ELSE <<>>)
         \o <<ts[i]>>

\* Faulty variant of v_steps: one point per sample, the hold point left out.
v_steps_no_hold(nums, i) == nums

RECURSIVE v_steps(_, _)
\* v_steps after the first i rounds of the step loop.
v_steps(nums, i) ==
    IF i = 0 THEN <<>>
    ELSE v_steps(nums, i - 1)
         \o (IF i > 1 THEN <<nums[i - 1]>> ELSE <<>>)
         \o <<nums[i]>>

SeqRange(q) == {q[i] : i \in 1..Len(q)}

\* Faulty variant of is_binary: a range test, which lets 0.5 through.
is_binary_upto_one(nums) == \A v \in SeqRange(nums) : 0 <= v /\ v <= 100

\* all(v in [0, 1] for v in numeric_values)
is_binary(nums) == \A v \in SeqRange(nums) : v \in {0, 100}

\* padding = (max_val - min_val) * 0.1
padding(nums) == (Max(SeqRange(nums)) - Min(SeqRange(nums))) \div 10

\* fig.update_yaxes(...) of the signal's row.
yaxis(nums) ==
    IF is_binary(nums)
    THEN [range |-> <<-50, 150>>, tickvals |-> <<0, 100>>]
    ELSE [range |-> <<Min(SeqRange(nums)) - padding(nums),
                      Max(SeqRange(nums)) + padding(nums)>>,
          tickvals |-> <<>>]

\* One round of the loop over the signals: the trace and axis of a signal.
Series(events, mt) ==
    IF events = <<>>
    THEN [drawn |-> FALSE, times |-> <<>>, values |-> <<>>,
          numeric_values |-> <<>>, t_steps |-> <<>>, v_steps |-> <<>>,
          yaxis |-> [range |-> <<>>, tickvals |-> <<>>]]
    ELSE LET ts   == times(events, mt)
             vs   == values(events, mt)
             nums == numeric_values(vs)
         IN  [drawn |-> TRUE, times |-> ts, values |-> vs,
              numeric_values |-> nums,
              t_steps |-> t_steps(ts, Len(ts)),
              v_steps |-> v_steps(nums, Len(ts)),
              yaxis |-> yaxis(nums)]

TotalEvents == Len(tv["clk"]) + Len(tv["data"])

\* vcdvcd reads the declaration of a signal.
Declare(s) ==
    /\ result = "pending"
    /\ s \notin signals
    /\ TotalEvents = 0
    /\ signals' = signals \cup {s}
    /\ UNCHANGED <<tv, result, fig, inject_vars>>

\* vcdvcd reads a value change of a declared signal; the timestamps of a
\* signal are strictly increasing.
ValueChange(s, t, v) ==
    /\ result = "pending"
    /\ s \in signals
    /\ TotalEvents < MaxEvents
    /\ IF tv[s] = <<>> THEN TRUE ELSE tv[s][Len(tv[s])][1] < t
    /\ tv' = [tv EXCEPT ![s] = Append(@, <<t, v>>)]
    /\ UNCHANGED <<signals, result, fig, inject_vars>>

\* visualize_vcd on a dump that declares no signal: st.error, return None.
VisualizeNoSignals ==
    /\ result = "pending"
    /\ signals = {}
    /\ result' = "None"
    /\ UNCHANGED <<signals, tv, fig, inject_vars>>

\* visualize_vcd on a dump with signals: the figure.
Visualize ==
    /\ result = "pending"
    /\ signals # {}
    /\ fig' = [s \in signals |-> Series(tv[s], max_time(signals, tv))]
    /\ result' = "fig"
    /\ UNCHANGED <<signals, tv, inject_vars>>

(***************************************************************************)
(* The state machine of the instrumentation: the user types the testbench, *)
(* runs the simulation (which instruments the text and writes test.v), and *)
(* runs the instrumentation again on the text that was written.            *)
(***************************************************************************)
Init ==
    /\ test_code = <<>>
    /\ modified_test_code = <<>>
    /\ rerun_code = <<>>
    /\ typed = 0
    /\ calls = 0
    /\ signals = {}
    /\ tv = [s \in AllSignals |-> <<>>]
    /\ result = "pending"
    /\ fig = <<>>

Type(piece) ==
    /\ calls = 0
    /\ typed < MaxPieces
    /\ test_code' = test_code \o piece
    /\ typed' = typed + 1
    /\ UNCHANGED <<modified_test_code, rerun_code, calls, vcd_vars>>

RunSimulation ==
    /\ calls = 0
    /\ modified_test_code' = inject_vcd_commands(test_code)
    /\ calls' = 1
    /\ UNCHANGED <<test_code, rerun_code, typed, vcd_vars>>

RunAgain ==
    /\ calls = 1
    /\ rerun_code' = inject_vcd_commands(modified_test_code)
    /\ calls' = 2
    /\ UNCHANGED <<test_code, modified_test_code, typed, vcd_vars>>

NextInject ==
    \/ \E piece \in Pieces : Type(piece)
    \/ RunSimulation
    \/ RunAgain

SpecInject == Init /\ [][NextInject]_vars

NextRender ==
    \/ \E s \in AllSignals : Declare(s)
    \/ \E s \in AllSignals, t \in TimeStamps :
           \E v \in Literals(s) : ValueChange(s, t, v)
    \/ VisualizeNoSignals
    \/ Visualize

SpecRender == Init /\ [][NextRender]_vars

(***************************************************************************)
(* Properties of inject_vcd_commands.                                      *)
(***************************************************************************)
\* Number of tokens of text equal to tok.
Count(text, tok) == Cardinality({i \in 1..Len(text) : text[i] = tok})

\* The scope arguments of the well-formed "$dumpvars(0, <name>)" statements.
ScopeArguments(text) ==
    {SubSeq(text, i + 5, SkipWord(text, i + 5) - 1) :
        i \in {k \in 1..(Len(text) - 5) :
                /\ SubSeq(text, k, k + 4) = <<"$dumpvars", "(", "0", ",", " ">>
                /\ SkipWord(text, k + 5) <= Len(text)
                /\ text[SkipWord(text, k + 5)] = ")"}}

\* needle occurs in text as a contiguous run of tokens.
ContainsSeq(text, needle) ==
    \E i \in 1..(Len(text) - Len(needle) + 1) :
        SubSeq(text, i, i + Len(needle) - 1) = needle

\* C1: instrumenting is idempotent: the second call on the output of the
\* first returns it unchanged; an output that differs from its input holds
\* both the $dumpfile and the $dumpvars token.
C1_Idempotent ==
    /\ calls = 2 => rerun_code = modified_test_code
    /\ (calls >= 1 /\ modified_test_code # test_code) =>
           AlreadyInstrumented(modified_test_code)

\* The first call inserted something into a source that held one of the two
\* tokens already, and the second call has run.
C1_Witness ==
    /\ calls = 2
    /\ modified_test_code # test_code
    /\ Contains(test_code, "$dumpvars")

\* The output is the input with one contiguous run of tokens inserted.
OneInsertion(in, out) ==
    \E p \in 0..Len(in) :
        /\ Len(out) > Len(in)
        /\ SubSeq(out, 1, p) = SubSeq(in, 1, p)
        /\ SubSeq(out, Len(out) - (Len(in) - p) + 1, Len(out)) =
               SubSeq(in, p + 1, Len(in))

FirstModuleIsFoo(text) ==
    \E i \in 1..(Len(text) - 3) :
        /\ \A j \in 1..(i - 1) : text[j] # "module"
        /\ i = 1 \/ ~EndsWithWord(text[i - 1])
        /\ SubSeq(text, i, i + 3) = <<"module", " ", "foo", ";">>

\* C3 as stated: whenever the source contains "module foo;" the inserted
\* $dumpvars names foo.
C3_AnyModuleFoo ==
    (/\ calls >= 1
     /\ ~AlreadyInstrumented(test_code)
     /\ ContainsSeq(test_code, <<"module", " ", "foo", ";">>)) =>
        ScopeArguments(modified_test_code) = {<<"foo">>}

\* C3 (amended): when the first "module" keyword of a not-yet-instrumented
\* source starts the declaration "module foo;", the inserted $dumpvars names
\* exactly foo; when the source holds no "module" keyword, an inserted
\* $dumpvars names the fallback test.
C3_ModuleNameRecovery ==
    (calls >= 1 /\ ~AlreadyInstrumented(test_code)) =>
        /\ FirstModuleIsFoo(test_code) =>
               ScopeArguments(modified_test_code) = {<<"foo">>}
        /\ ~Contains(test_code, "module") =>
               /\ ScopeArguments(modified_test_code) \subseteq {<<"test">>}
               /\ modified_test_code # test_code =>
                      ScopeArguments(modified_test_code) = {<<"test">>}

\* "module foo;" comes first and another module declaration follows it.
C3_Witness ==
    /\ calls >= 1
    /\ ~AlreadyInstrumented(test_code)
    /\ FirstModuleIsFoo(test_code)
    /\ Cardinality(ModuleMatches(test_code)) >= 2
    /\ ScopeArguments(modified_test_code) = {<<"foo">>}

\* C7 as stated: without an initial-block opener, when "module" is followed
\* anywhere later (also on a later line) by ';' or ')', a new initial block
\* with both statements is inserted right after the first ';' or ')' that
\* follows the first "module".
C7_NewBlockAfterHeader ==
    (/\ calls >= 1
     /\ ~AlreadyInstrumented(test_code)
     /\ initial_pattern(test_code) = {}
     /\ ModuleFollowedByCloser(test_code) # {}) =>
        LET i == Min({k \in 1..Len(test_code) : test_code[k] = "module"})
            j == Min({k \in (i + 1)..Len(test_code) : test_code[k] \in {";", ")"}})
        IN  modified_test_code =
                Splice(test_code, j, NewInitialBlock(module_name(test_code)))

(***************************************************************************)
(* Properties of visualize_vcd.                                            *)
(***************************************************************************)
\* The signals of the figure that have a trace.
Drawn == IF result = "fig" THEN {s \in signals : fig[s].drawn} ELSE {}

ExampleEvents == << <<0, <<"0">> >>, <<10, <<"1">> >>, <<25, <<"0">> >> >>

ClockEvents ==
    << <<0, <<"0">> >>, <<10, <<"1">> >>, <<20, <<"0">> >>, <<30, <<"1">> >> >>

\* The rendered points of a series, as (time, value) pairs.
Points(r) == [k \in 1..Len(r.t_steps) |-> <<r.t_steps[k], r.v_steps[k]>>]

\* C4: the rendered list is (t_1, v_1) followed, for every later point i, by
\* (t_i, v_{i-1}) and (t_i, v_i); two adjacent rendered points share their
\* time or their value; the events (0,"0"), (10,"1"), (25,"0") with
\* max_time = 30 render as (0,0), (10,0), (10,1), (25,1), (25,0), (30,0), ...
C4_HoldThenJump ==
    \A s \in Drawn :
        LET r == fig[s]
            n == Len(r.times)
        IN  /\ Len(r.t_steps) = 2 * n - 1
            /\ Len(r.v_steps) = 2 * n - 1
            /\ Points(r)[1] = <<r.times[1], r.numeric_values[1]>>
            /\ \A i \in 2..n :
                   /\ Points(r)[2 * i - 2] = <<r.times[i], r.numeric_values[i - 1]>>
                   /\ Points(r)[2 * i - 1] = <<r.times[i], r.numeric_values[i]>>
            /\ \A k \in 1..(2 * n - 2) :
                   \/ r.t_steps[k] = r.t_steps[k + 1]
                   \/ r.v_steps[k] = r.v_steps[k + 1]
            /\ (tv[s] = ExampleEvents /\ max_time(signals, tv) = 30) =>
                   SubSeq(Points(r), 1, 6) =
                       << <<0, 0>>, <<10, 0>>, <<10, 100>>,
                          <<25, 100>>, <<25, 0>>, <<30, 0>> >>

\* The example trace has been rendered on a time axis that ends at 30.
C4_Witness ==
    /\ result = "fig"
    /\ tv["clk"] = ExampleEvents
    /\ tv["data"] # <<>>
    /\ max_time(signals, tv) = 30

\* C5 as stated: the clock with events at 0, 10, 20 and 30 renders as a
\* binary series of exactly 8 points that ends at (30, 1).
C5_EightPoints ==
    (result = "fig" /\ signals = {"clk"} /\ tv["clk"] = ClockEvents) =>
        /\ fig["clk"].yaxis = [range |-> <<-50, 150>>, tickvals |-> <<0, 100>>]
        /\ Len(Points(fig["clk"])) = 8
        /\ Points(fig["clk"])[Len(Points(fig["clk"]))] = <<30, 100>>

\* C5 (amended): the clock with events at 0, 10, 20 and 30 renders as a
\* binary series of exactly 7 points that ends at (30, 1).
C5_SevenPoints ==
    (result = "fig" /\ signals = {"clk"} /\ tv["clk"] = ClockEvents) =>
        /\ fig["clk"].yaxis = [range |-> <<-50, 150>>, tickvals |-> <<0, 100>>]
        /\ Len(Points(fig["clk"])) = 7
        /\ Points(fig["clk"]) =
               << <<0, 0>>, <<10, 0>>, <<10, 100>>, <<20, 100>>,
                  <<20, 0>>, <<30, 0>>, <<30, 100>> >>

\* The dump with the single signal clk and its four events has been rendered.
C5_Witness ==
    /\ result = "fig"
    /\ signals = {"clk"}
    /\ tv["clk"] = ClockEvents

\* C6: a series gets the fixed range [-0.5, 1.5] with the ticks 0 and 1 if
\* and only if each of its numeric values is 0 or 1; every other series gets
\* the range [min - padding, max + padding] and no fixed ticks.
C6_BinaryClassification ==
    \A s \in Drawn :
        LET r    == fig[s]
            nums == SeqRange(r.numeric_values)
        IN  /\ (r.yaxis = [range |-> <<-50, 150>>, tickvals |-> <<0, 100>>])
                   <=> (nums \subseteq {0, 100})
            /\ ~(nums \subseteq {0, 100}) =>
                   /\ r.yaxis.tickvals = <<>>
                   /\ r.yaxis.range[1] = Min(nums) - (Max(nums) - Min(nums)) \div 10
                   /\ r.yaxis.range[2] = Max(nums) + (Max(nums) - Min(nums)) \div 10

\* A series of 0, 1 and the fallback value 0.5 has been rendered.
C6_Witness ==
    \E s \in Drawn : SeqRange(fig[s].numeric_values) = {0, 50, 100}

\* C8 as stated: the range of a series that is not binary has a lower bound
\* below its upper bound, also when all values of the series are equal.
C8_RangeNotDegenerate ==
    \A s \in Drawn :
        fig[s].yaxis.tickvals = <<>> =>
            fig[s].yaxis.range[1] < fig[s].yaxis.range[2]

\* The largest timestamp of the dump (0 when it has no event).
LastTime ==
    Max({0} \cup UNION {{tv[s][i][1] : i \in 1..Len(tv[s])} : s \in signals})

\* C9: every rendered series starts at time 0 (with a synthesized "0" when
\* the first event of the signal is later) and ends at the largest timestamp
\* of the whole dump with the last value of the signal; its times never
\* decrease.
C9_SharedTimeAxis ==
    \A s \in Drawn :
        LET r == fig[s]
            n == Len(r.times)
            e == tv[s]
        IN  /\ n >= 1 /\ Len(r.values) = n
            /\ r.times[1] = 0
            /\ e[1][1] > 0 => (r.values[1] = <<"0">> /\ r.values[2] = e[1][2])
            /\ e[1][1] = 0 => r.values[1] = e[1][2]
            /\ r.times[n] = LastTime
            /\ r.values[n] = e[Len(e)][2]
            /\ \A i \in 1..(n - 1) : r.times[i] <= r.times[i + 1]
            /\ r.t_steps[1] = 0
            /\ r.t_steps[Len(r.t_steps)] = LastTime
            /\ \A k \in 1..(Len(r.t_steps) - 1) : r.t_steps[k] <= r.t_steps[k + 1]

\* A signal that starts after time 0 and stops before the end of the dump
\* has been rendered.
C9_Witness ==
    \E s \in Drawn :
        /\ tv[s][1][1] > 0
        /\ tv[s][Len(tv[s])][1] < LastTime

\* The literals with a numeric reading, and the reading (in hundredths).
ParseableLiterals == { <<"0">>, <<"1">>, <<"1", "0", "1">>, <<"2", ".", "5">> }

Reading(v) ==
    CASE v = <<"0">> -> 0
      [] v = <<"1">> -> 100
      [] v = <<"1", "0", "1">> -> 500
      [] v = <<"2", ".", "5">> -> 250

\* C10: every series gets its numeric values (nothing is raised); when each
\* literal of the series has a numeric reading, each value is that reading;
\* when one literal has none, every value of the series is 0 for "0", 1 for
\* "1" and 0.5 for anything else; equal literal lists give equal values.
C10_AllOrNothingFallback ==
    /\ result \in {"pending", "None", "fig"}
    /\ result = "fig" => \A s \in signals : fig[s].drawn <=> tv[s] # <<>>
    /\ \A s \in Drawn :
           LET vs   == fig[s].values
               nums == fig[s].numeric_values
           IN  /\ Len(nums) = Len(vs)
               /\ IF SeqRange(vs) \subseteq ParseableLiterals
                  THEN \A i \in 1..Len(vs) : nums[i] = Reading(vs[i])
                  ELSE \A i \in 1..Len(vs) :
                           nums[i] = IF vs[i] = <<"0">> THEN 0
                                     ELSE IF vs[i] = <<"1">> THEN 100
                                     ELSE 50
    /\ \A s1, s2 \in Drawn :
           fig[s1].values = fig[s2].values =>
               fig[s1].numeric_values = fig[s2].numeric_values

\* A series with the vector 101 and an unknown has been rendered.
C10_Witness ==
    \E s \in Drawn :
        /\ <<"1", "0", "1">> \in SeqRange(fig[s].values)
        /\ <<"x">> \in SeqRange(fig[s].values)
        /\ SeqRange(fig[s].numeric_values) = {50}

=============================================================================
